---- MODULE Spec2Model ----
(***************************************************************************)
(* The streaming entrypoint of patterns/claude-agent-sdk/agent.py:         *)
(* main() drives _process_messages() over one ClaudeSDKClient run, yields  *)
(* one event per translated content item, and retries once without the     *)
(* resume id when the run raises ProcessError.                             *)
(***************************************************************************)
EXTENDS Integers, Sequences, FiniteSets, TLC

\* ------------------------------------------------------------------ bounds
\* Native items the run service delivers over one invocation (both attempts):
\* every message counts one, and every content item of a message one more.
MaxItems == 4

\* ----------------------------------------------------------- Python values
None == "<None>"
\* A local variable of a frame that no statement has bound yet.
UNBOUND == "<unbound>"
\* Python truthiness of an optional string (None and "" are falsy).
Truthy(x) == x # None /\ x # ""

\* payload.get("claude_session_id"): absent, empty or a prior run's id.
ResumeTokens == {None, "", "t1"}
\* payload.get("code_int_session_id", ""): "" or the caller's stored id.
SandboxIds == {"", "sess-0"}
\* ResultMessage.session_id values.
RunIds == {"r1"}

\* Exception classes the run service raises (claude_agent_sdk errors).
ProcessError == "ProcessError"
ExceptionKinds == {ProcessError, "CLIConnectionError"}

\* ------------------------------------------------------------ native items
TextBlock(t) == [type |-> "TextBlock", text |-> t]
ToolUseBlock(n, i, x) == [type |-> "ToolUseBlock", name |-> n, input |-> i, id |-> x]
ToolResultBlock(c) == [type |-> "ToolResultBlock", content |-> c]

\* ToolResultBlock.content is None, a str, or a list of content dicts.
ContentNone == [kind |-> "None"]
ContentStr(s) == [kind |-> "str", s |-> s]
ContentList(items) == [kind |-> "list", items |-> items]
\* A content dict {"type": "text", "text": t}.
TextItem(t) == [isdict |-> TRUE, hastext |-> TRUE, text |-> t]
\* A content dict without a "text" key, e.g. {"type": "image", ...}.
ImageItem == [isdict |-> TRUE, hastext |-> FALSE, text |-> ""]
\* A first element that is no dict.
NonDictItem == [isdict |-> FALSE, hastext |-> FALSE, text |-> ""]

JsonSess42 == "{\"code_int_session_id\": \"sess-42\"}"
JsonSess43 == "{\"code_int_session_id\": \"sess-43\"}"
JsonEmptyObj == "{}"
JsonEmptyField == "{\"code_int_session_id\": \"\"}"
JsonList == "[1]"
NonJson == "not json"
PayloadTexts == {JsonSess42, JsonSess43, JsonEmptyObj, JsonEmptyField, JsonList, NonJson}

ToolResultContents ==
    {ContentNone, ContentList(<<>>), ContentStr(JsonSess42),
     ContentList(<<NonDictItem>>), ContentList(<<ImageItem>>)}
    \cup {ContentList(<<TextItem(t)>>) : t \in PayloadTexts}

\* A tool-use item that carries no id attribute.
ToolUseBlockNoId(n, i) == [type |-> "ToolUseBlock", name |-> n, input |-> i]

AssistantBlocks ==
    {TextBlock("hi"),
     ToolUseBlock("mcp__codeint__execute_code", "in", "abc"),
     ToolUseBlockNoId("Task", "in"),
     ToolResultBlock(ContentList(<<TextItem(JsonSess42)>>))}
UserBlocks ==
    {ToolResultBlock(c) : c \in ToolResultContents}
    \cup {TextBlock("hi"), ToolUseBlock("mcp__codeint__execute_code", "in", "abc")}

\* The interpreter's string-hash seed (PYTHONHASHSEED, random at process
\* start).  Nothing observes it before the first hash() call, so the state
\* holds it from that call on.
HashSeeds == {"seed0", "seed1"}

\* ------------------------------------------------------------- conversions
\* json.loads on the payload texts: a decode error, or the parsed value.
JsonLoads(text) ==
    CASE text = JsonSess42 -> [ok |-> TRUE, isdict |-> TRUE, has |-> TRUE, sid |-> "sess-42"]
      [] text = JsonSess43 -> [ok |-> TRUE, isdict |-> TRUE, has |-> TRUE, sid |-> "sess-43"]
      [] text = JsonEmptyField -> [ok |-> TRUE, isdict |-> TRUE, has |-> TRUE, sid |-> ""]
      [] text = JsonEmptyObj -> [ok |-> TRUE, isdict |-> TRUE, has |-> FALSE, sid |-> ""]
      [] text = JsonList -> [ok |-> TRUE, isdict |-> FALSE, has |-> FALSE, sid |-> ""]
      [] OTHER -> [ok |-> FALSE, isdict |-> FALSE, has |-> FALSE, sid |-> ""]

\* Variant: the handler lets the decode error leave the block.
OnJSONDecodeErrorReraise == "JSONDecodeError"
\* What the handler of json.JSONDecodeError does: "pass" (no exception leaves).
OnJSONDecodeError == None

\* Lines 141-152 on one block: the value assigned to code_int_session_id
\* ("" when no assignment happens) and the exception that leaves the block.
ExtractSession(block) ==
    LET none == [extracted |-> "", exc |-> None] IN
    IF block.type # "ToolResultBlock" THEN none
    ELSE IF block.content.kind = "None" THEN none
    ELSE IF block.content.kind = "str"
         THEN none   \* content[0] of a str is a str, never a dict
    ELSE IF Len(block.content.items) = 0 THEN none
    ELSE IF ~block.content.items[1].isdict THEN none
    ELSE LET first == block.content.items[1]
             text_content == IF first.hastext THEN first.text ELSE ""
             result_data == JsonLoads(text_content)
         IN IF ~result_data.ok THEN [extracted |-> "", exc |-> OnJSONDecodeError]
            ELSE IF ~result_data.isdict THEN none
            ELSE LET extracted == IF result_data.has THEN result_data.sid ELSE ""
                 IN [extracted |-> extracted, exc |-> None]


\* os.environ.get("STACK_NAME") (line 48).
StackNames == {None, "stack"}
\* What get_ssm_parameter returns for the gateway URL (line 49).
SsmResults == {None, "https://gw"}
\* What get_gateway_access_token returns (line 50).
TokenResults == {None, "tok"}

\* The MCP server entries of lines 55-57 and 67-71.
CodeIntServer == [name |-> "codeint", server |-> [type |-> "sdk", instance |-> "code_int_mcp_server"]]
GatewayServer(url, token) ==
    [name |-> "gateway",
     server |-> [type |-> "http", url |-> url, headers |-> [Authorization |-> <<"Bearer ", token>>]]]
\* allowed_tools of lines 58-63.
SandboxTools ==
    <<"mcp__codeint__execute_code", "mcp__codeint__execute_command",
      "mcp__codeint__write_files", "mcp__codeint__read_files">>
GatewayTool == "mcp__gateway__*"
TaskTool == "Task"

\* agents/subagents.py, get_subagent_definitions(mcp_servers): the one
\* entry of the catalog; the argument is not read.
get_subagent_definitions(servers) ==
    <<[name |-> "code-analyst",
       definition |->
          [description |-> "Analyzes code output, debugs errors, and explains results.",
           prompt |-> "You are a code analysis specialist.",
           tools |-> <<"mcp__codeint__execute_code", "mcp__codeint__execute_command",
                       "mcp__gateway__*", "Read", "Grep", "Glob">>,
           model |-> "sonnet"]]>>

\* -------------------------------------------------------------------- state
VARIABLES
    pc,                     \* main: "start", "try" (158), "except" (163), "done", "raised", "closed"
    claude_session_id,      \* main's local, line 41
    code_int_session_id,    \* main's local, line 40
    raised,                 \* the exception main propagated to its caller, or None
    attempts,               \* one record per _process_messages call: options, client
    agent_responses,        \* main's list, line 52
    events,                 \* what main has yielded to its caller, in order
    origin,                 \* for each yielded event: <<attempt, message, item>> it comes from
    gpc,                    \* _process_messages: "connecting", "recv", "assistant", "user", "finished"
    msg,                    \* loop variable of line 120
    block,                  \* loop variable of lines 125 / 140
    idx,                    \* items of msg.content already visited
    pm_code_int_session_id, \* the name code_int_session_id inside _process_messages (line 150)
    received,               \* native items delivered so far (messages and their content items)
    stack_name,             \* main's local, line 48
    gateway_url,            \* main's local, line 49
    access_token,           \* main's local, line 50
    mcp_servers,            \* main's dict, lines 55-71, as its entries in order
    allowed_tools,          \* main's list, lines 58-76
    subagents,              \* main's local, line 79
    calls,                  \* the collaborator lookups main has made (lines 49-50)
    hash_seed,              \* the process's hash seed, UNBOUND until hash() (line 132) reads it
    suspended               \* main is suspended at `yield event` (159 / 164)

vars == <<pc, claude_session_id, code_int_session_id, raised, attempts, agent_responses,
          events, origin, gpc, msg, block, idx, pm_code_int_session_id, received,
          stack_name, gateway_url, access_token, mcp_servers, allowed_tools, subagents, calls,
          hash_seed, suspended>>

inputs == <<claude_session_id, code_int_session_id>>
config == <<stack_name, gateway_url, access_token, mcp_servers, allowed_tools, subagents, calls>>
frame == <<msg, block, idx, pm_code_int_session_id>>

UnboundMsg == [type |-> UNBOUND]
UnboundBlock == [type |-> UNBOUND]

\* -------------------------------------------------------------- the events
\* hash(block.name): the str hash is salted with the process's seed, so it is
\* a function of the name and of the seed.
PyHash(name) == <<"hash", hash_seed, name>>
\* hasattr(block, "id").
HasId(b) == "id" \in DOMAIN b
\* Line 132.
ToolUseId(b) ==
    IF HasId(b) THEN <<"tool-", b.id>> ELSE <<"tool-", PyHash(b.name)>>

\* The event dict yielded at lines 128-134.
ToolUseEvent(b) ==
    [current_tool_use |->
        [name |-> b.name, input |-> b.input, toolUseId |-> ToolUseId(b)]]
\* Variant: the chunk is announced without its text.
TextEventEmpty(b) == [data |-> ""]
\* Line 138.
TextEvent(b) == [data |-> b.text]
\* Line 155.
ResultEvent(m) == [claude_session_id |-> m.session_id]

Init ==
    /\ pc = "start"
    /\ claude_session_id \in ResumeTokens
    /\ code_int_session_id \in SandboxIds
    /\ raised = None
    /\ attempts = <<>>
    /\ agent_responses = <<>>
    /\ events = <<>>
    /\ origin = <<>>
    /\ gpc = "finished"
    /\ msg = UnboundMsg
    /\ block = UnboundBlock
    /\ idx = 0
    /\ pm_code_int_session_id = UNBOUND
    /\ received = 0
    /\ stack_name = UNBOUND
    /\ gateway_url = UNBOUND
    /\ access_token = UNBOUND
    /\ mcp_servers = <<>>
    /\ allowed_tools = <<>>
    /\ subagents = <<>>
    /\ calls = {}
    /\ hash_seed = UNBOUND
    /\ suspended = FALSE

\* ------------------------------------------------------------ code choices
\* Variant: an event is handed over ahead of the ones already yielded.
YieldFirst(out, e) == <<e>> \o out
\* `yield event` (lines 159 / 164): the caller's sequence grows at its end.
Yield(out, e) == Append(out, e)

\* Variant: the items are visited last to first.
BlockOrderReversed(n, k) == n + 1 - k
\* `for block in msg.content` visits the items first to last: the k-th visit
\* is item k of n.
BlockOrder(n, k) == k

\* Variant: a bare `except Exception`.
HandlesAny(k) == TRUE
\* `except ProcessError` (line 160): the classes the handler catches.
Handles(k) == k = ProcessError

\* Variant: the retry does not look at the prior resume id.
ShouldRetryAlways == TRUE
\* `if claude_session_id` (line 161).
ShouldRetry == Truthy(claude_session_id)

\* Variant: the retry resumes the same session again.
RetryResumeIdSame == claude_session_id
\* The resume id of the retry's options, `_build_options(None)` (line 163).
RetryResumeId == None

\* Variant: the client is used without `async with`, so nothing disconnects it.
AExitMissing == "open"
\* Leaving `async with ClaudeSDKClient(...)` (line 118), normally or by an
\* exception, runs __aexit__, which disconnects the client.
AExit == "closed"

\* Variant: the token is fetched whether or not a URL was resolved.
RequestsTokenAlways(url) == TRUE
\* `get_gateway_access_token() if gateway_url else None` (line 50).
RequestsToken(url) == Truthy(url)

\* Variant: the gateway is configured as soon as its URL is known.
GatewayAvailableUrlOnly == Truthy(gateway_url)
\* `if gateway_url and access_token` (line 66).
GatewayAvailable == Truthy(gateway_url) /\ Truthy(access_token)

\* Variant: a fresh (resume-less) run is built without the sub-agents.
_build_options_fresh_differs(resume_id) ==
    [mcp_servers |-> mcp_servers,
     model |-> "us.anthropic.claude-opus-4-6-v1",
     allowed_tools |-> allowed_tools,
     agents |-> IF resume_id = None THEN <<>> ELSE subagents,
     resume |-> resume_id,
     thinking |-> [type |-> "adaptive"],
     cli_path |-> "/usr/bin/claude",
     stderr |-> "logger.error",
     system_prompt |-> "You are an AI assistant that helps users with code execution and analysis tasks."]
\* _build_options(resume_id), lines 81-114: main's mcp_servers, allowed_tools
\* and subagents as they are at the call, the resume id, and constants (the
\* system prompt is an f-string without placeholders; the stderr callback is
\* a new lambda of the same code at every build).
_build_options(resume_id) ==
    [mcp_servers |-> mcp_servers,
     model |-> "us.anthropic.claude-opus-4-6-v1",
     allowed_tools |-> allowed_tools,
     agents |-> subagents,
     resume |-> resume_id,
     thinking |-> [type |-> "adaptive"],
     cli_path |-> "/usr/bin/claude",
     stderr |-> "logger.error",
     system_prompt |-> "You are an AI assistant that helps users with code execution and analysis tasks."]

\* A fresh frame of _process_messages(options): no local is bound.
NewAttempt(resume_id) == [options |-> _build_options(resume_id), client |-> "connecting"]

Cur == Len(attempts)
SetClient(st) == [attempts EXCEPT ![Cur].client = st]

\* ----------------------------------------------------------------- actions
\* Lines 38-79 and 157-158: read the payload, build the options of the first
\* attempt and start iterating _process_messages.  The gateway URL is looked up
\* only with a stack name, the access token only with a URL.
Main ==
    /\ pc = "start"
    /\ \E s \in StackNames :
       \E u \in (IF Truthy(s) THEN SsmResults ELSE {None}) :
       \E t \in (IF RequestsToken(u) THEN TokenResults ELSE {None}) :
          /\ stack_name' = s
          /\ gateway_url' = u
          /\ access_token' = t
          /\ calls' = (IF Truthy(s) THEN {"get_ssm_parameter"} ELSE {})
                       \cup (IF RequestsToken(u) THEN {"get_gateway_access_token"} ELSE {})
    /\ mcp_servers' = IF GatewayAvailable' THEN <<CodeIntServer, GatewayServer(gateway_url', access_token')>>
                      ELSE <<CodeIntServer>>
    /\ allowed_tools' = SandboxTools \o (IF GatewayAvailable' THEN <<GatewayTool>> ELSE <<>>)
                                     \o <<TaskTool>>
    /\ subagents' = get_subagent_definitions(mcp_servers')
    /\ suspended' = FALSE
    /\ UNCHANGED <<inputs, hash_seed, raised, agent_responses, events, origin, frame, received>>
    /\ pc' = "try"
    /\ attempts' = <<NewAttempt(claude_session_id)'>>
    /\ gpc' = "connecting"

\* Lines 118-119: __aenter__ connects the client and the prompt is sent.
Connect ==
    /\ pc \in {"try", "except"}
    /\ gpc = "connecting"
    /\ attempts' = SetClient("open")
    /\ gpc' = "recv"
    /\ suspended' = FALSE
    /\ UNCHANGED <<pc, inputs, hash_seed, config, raised, agent_responses, events, origin, frame, received>>

\* An exception of class k leaves _process_messages (after the client state
\* became `cl`) and reaches the try statement of lines 157-166.
Propagate(k, cl) ==
    IF pc = "try" /\ Handles(k) /\ ShouldRetry
    THEN /\ pc' = "except"
         /\ raised' = raised
         /\ attempts' = Append(SetClient(cl), NewAttempt(RetryResumeId))
         /\ gpc' = "connecting"
         /\ msg' = UnboundMsg
         /\ block' = UnboundBlock
         /\ idx' = 0
         /\ pm_code_int_session_id' = UNBOUND
    ELSE /\ pc' = "raised"
         /\ raised' = k
         /\ attempts' = SetClient(cl)
         /\ gpc' = "finished"
         /\ UNCHANGED frame

\* The run service raises while connecting (line 118): __aexit__ does not run.
ConnectFails(k) ==
    /\ pc \in {"try", "except"}
    /\ gpc = "connecting"
    /\ Propagate(k, "connect_failed")
    /\ suspended' = FALSE
    /\ UNCHANGED <<inputs, hash_seed, config, agent_responses, events, origin, received>>

\* The run service raises from query() or receive_response() (lines 119-120).
RunFails(k) ==
    /\ pc \in {"try", "except"}
    /\ gpc = "recv"
    /\ Propagate(k, AExit)
    /\ suspended' = FALSE
    /\ UNCHANGED <<inputs, hash_seed, config, agent_responses, events, origin, received>>

\* Variant: an exhausted stream is reported as a failure of the run process.
StreamEndRaises ==
    /\ pc \in {"try", "except"}
    /\ gpc = "recv"
    /\ Propagate(ProcessError, AExit)
    /\ suspended' = FALSE
    /\ UNCHANGED <<inputs, hash_seed, config, agent_responses, events, origin, received>>
\* receive_response() is exhausted: the async with block exits, the generator
\* returns and main's loop (158 or 163) ends.  When the stream ends is the
\* run service's decision: the loop of lines 120-155 never leaves on its own.
StreamEnd ==
    /\ pc \in {"try", "except"}
    /\ gpc = "recv"
    /\ attempts' = SetClient(AExit)
    /\ gpc' = "finished"
    /\ pc' = "done"
    /\ suspended' = FALSE
    /\ UNCHANGED <<inputs, hash_seed, config, raised, agent_responses, events, origin, frame, received>>

\* `async for msg in client.receive_response()` (line 120) gets a message
\* with n content items.
Receiving(n) ==
    /\ pc \in {"try", "except"}
    /\ gpc = "recv"
    /\ received + 1 + n <= MaxItems
    /\ received' = received + 1 + n

\* Lines 121-123: a SystemMessage is logged at most.
ReceiveSystemMessage(subtype) ==
    /\ Receiving(0)
    /\ msg' = [type |-> "SystemMessage", subtype |-> subtype]
    /\ suspended' = FALSE
    /\ UNCHANGED <<pc, inputs, hash_seed, config, raised, attempts, agent_responses, events, origin, gpc,
                   block, idx, pm_code_int_session_id>>

\* Lines 124-125 / 139-140: a message with n content items starts the inner loop.
ReceiveContentMessage(type, n) ==
    /\ Receiving(n)
    /\ msg' = [type |-> type, n |-> n, no |-> received + 1]
    /\ idx' = 0
    /\ gpc' = IF n = 0 THEN "recv"
              ELSE IF type = "AssistantMessage" THEN "assistant" ELSE "user"
    /\ suspended' = FALSE
    /\ UNCHANGED <<pc, inputs, hash_seed, config, raised, attempts, agent_responses, events, origin,
                   block, pm_code_int_session_id>>

\* Lines 153-155: the ResultMessage's session id is yielded; the loop of line
\* 120 then asks receive_response() for the next message.
ReceiveResultMessage(sid) ==
    /\ Receiving(0)
    /\ msg' = [type |-> "ResultMessage", session_id |-> sid]
    /\ events' = Yield(events, ResultEvent(msg'))
    /\ origin' = Yield(origin, <<Cur, received + 1, 0>>)
    /\ suspended' = TRUE
    /\ UNCHANGED <<pc, inputs, hash_seed, config, raised, attempts, agent_responses, gpc,
                   block, idx, pm_code_int_session_id>>

\* Variant: a trailing else branch reports the unknown message to the caller.
ReceiveOtherMessageYields ==
    /\ Receiving(0)
    /\ msg' = [type |-> "StreamEvent"]
    /\ events' = Yield(events, [data |-> "StreamEvent"])
    /\ origin' = Yield(origin, <<Cur, received + 1, 0>>)
    /\ suspended' = TRUE
    /\ UNCHANGED <<pc, inputs, hash_seed, config, raised, attempts, agent_responses, gpc,
                   block, idx, pm_code_int_session_id>>
\* A message of no class the chain of isinstance tests names.
ReceiveOtherMessage ==
    /\ Receiving(0)
    /\ msg' = [type |-> "StreamEvent"]
    /\ suspended' = FALSE
    /\ UNCHANGED <<pc, inputs, hash_seed, config, raised, attempts, agent_responses, events, origin, gpc,
                   block, idx, pm_code_int_session_id>>

NextItem == BlockOrder(msg.n, idx + 1)
LastBlock == idx + 1 = msg.n
AfterBlock == IF LastBlock THEN "recv" ELSE gpc

\* Lines 125-138: one item of an AssistantMessage.
ProcessAssistantBlock(b) ==
    /\ pc \in {"try", "except"}
    /\ gpc = "assistant"
    /\ block' = b
    /\ idx' = idx + 1
    /\ gpc' = AfterBlock
    /\ hash_seed' \in IF b.type = "ToolUseBlock" /\ ~HasId(b) /\ hash_seed = UNBOUND
                      THEN HashSeeds ELSE {hash_seed}
    /\ IF b.type = "ToolUseBlock"
       THEN /\ events' = Yield(events, ToolUseEvent(b)')
            /\ origin' = Yield(origin, <<Cur, msg.no, NextItem>>)
            /\ UNCHANGED agent_responses
       ELSE IF b.type = "TextBlock"
       THEN /\ agent_responses' = Append(agent_responses, b.text)
            /\ events' = Yield(events, TextEvent(b))
            /\ origin' = Yield(origin, <<Cur, msg.no, NextItem>>)
       ELSE UNCHANGED <<agent_responses, events, origin>>
    /\ suspended' = (b.type \in {"ToolUseBlock", "TextBlock"})
    /\ UNCHANGED <<pc, inputs, config, raised, attempts, msg, pm_code_int_session_id, received>>

\* Lines 140-152: one item of a UserMessage.  The assignment of line 150
\* binds the name in _process_messages' own scope (no nonlocal declaration),
\* so main's code_int_session_id keeps its value.
ProcessUserBlock(b) ==
    LET r == ExtractSession(b) IN
    /\ pc \in {"try", "except"}
    /\ gpc = "user"
    /\ IF r.exc # None
       THEN /\ Propagate(r.exc, AExit)
            /\ suspended' = FALSE
            /\ UNCHANGED <<inputs, hash_seed, config, agent_responses, events, origin, received>>
       ELSE /\ block' = b
            /\ idx' = idx + 1
            /\ gpc' = AfterBlock
            /\ pm_code_int_session_id' =
                  IF Truthy(r.extracted) THEN r.extracted ELSE pm_code_int_session_id
            /\ suspended' = FALSE
            /\ UNCHANGED <<pc, inputs, hash_seed, config, raised, attempts, agent_responses, events, origin,
                           msg, received>>

\* The caller closes main's generator (aclose) before it completed: before
\* its first step, or while it is suspended at `yield event`.  GeneratorExit
\* is raised at line 159 / 164 and leaves main (it is no ProcessError); the
\* `async for` of line 158 / 163 does not close the generator it iterates,
\* so _process_messages stays suspended at its own yield, inside its
\* `async with`.
Abandon ==
    /\ pc = "start" \/ (pc \in {"try", "except"} /\ suspended)
    /\ pc' = "closed"
    /\ UNCHANGED <<inputs, hash_seed, config, raised, attempts, agent_responses, events, origin,
                   gpc, frame, received, suspended>>

\* The abandoned _process_messages generator is finalized (the event loop's
\* asynchronous-generator hook, when the loop gets to it): GeneratorExit at its
\* yield leaves the `async with` of line 118 and __aexit__ closes the client.
Finalize ==
    /\ pc = "closed"
    /\ gpc \in {"recv", "assistant"}
    /\ attempts' = SetClient(AExit)
    /\ gpc' = "finished"
    /\ suspended' = FALSE
    /\ UNCHANGED <<pc, inputs, hash_seed, config, raised, agent_responses, events, origin, frame, received>>

Next ==
    \/ Main
    \/ Connect
    \/ \E k \in ExceptionKinds : ConnectFails(k)
    \/ \E k \in ExceptionKinds : RunFails(k)
    \/ StreamEnd
    \/ \E st \in {"init", "status"} : ReceiveSystemMessage(st)
    \/ \E t \in {"AssistantMessage", "UserMessage"}, n \in 0..MaxItems :
          ReceiveContentMessage(t, n)
    \/ \E sid \in RunIds : ReceiveResultMessage(sid)
    \/ ReceiveOtherMessage
    \/ \E b \in AssistantBlocks : ProcessAssistantBlock(b)
    \/ \E b \in UserBlocks : ProcessUserBlock(b)
    \/ Abandon
    \/ Finalize

Spec == Init /\ [][Next]_vars

\* ------------------------------------------------------------------ claims
Live(i) == attempts[i].client \in {"connecting", "open"}
\* An exception of class k leaves the current attempt.
AttemptFails(k) == RunFails(k) \/ ConnectFails(k)
IsRunCompleted(e) == "claude_session_id" \in DOMAIN e
\* <<attempt, message, item>> in lexicographic order.
Before(a, b) ==
    \/ a[1] < b[1]
    \/ a[1] = b[1] /\ a[2] < b[2]
    \/ a[1] = b[1] /\ a[2] = b[2] /\ a[3] < b[3]

\* C1: a ProcessError of the first attempt with a non-empty prior resume id
\* opens exactly one further attempt, whose options carry no resume id; any
\* failure of that second attempt propagates; never more than two attempts.
C1_RetryOnce ==
    /\ [](/\ Len(attempts) <= 2
          /\ Len(attempts) = 2 =>
                /\ Truthy(attempts[1].options.resume)
                /\ ~Truthy(attempts[2].options.resume))
    /\ [][(pc = "try" /\ Truthy(claude_session_id) /\ AttemptFails(ProcessError))
            => (pc' = "except" /\ Len(attempts') = 2 /\ raised' = None)]_vars
    /\ [][\A k \in ExceptionKinds : (pc = "except" /\ AttemptFails(k))
            => (pc' = "raised" /\ raised' = k /\ Len(attempts') = 2)]_vars
\* The retry itself failed with ProcessError, which reached the caller.
C1_Witness ==
    /\ pc = "raised" /\ raised = ProcessError
    /\ Len(attempts) = 2 /\ attempts[1].options.resume = "t1"

\* C2: a ProcessError of the first attempt with an empty or absent prior
\* resume id propagates at once; no second attempt is opened.
C2_NoRetryWithoutToken ==
    /\ [](~Truthy(claude_session_id) => Len(attempts) <= 1)
    /\ [][(pc = "try" /\ ~Truthy(claude_session_id) /\ AttemptFails(ProcessError))
            => (pc' = "raised" /\ raised' = ProcessError /\ attempts'[1].client # "open"
                /\ Len(attempts') = 1)]_vars
C2_Witness ==
    /\ pc = "raised" /\ raised = ProcessError
    /\ claude_session_id = "" /\ Len(attempts) = 1

\* C3: a failure of any class other than ProcessError propagates unchanged
\* and opens no further attempt, also with a non-empty prior resume id.
C3_OtherFailuresPropagate ==
    [][\A k \in ExceptionKinds \ {ProcessError} : AttemptFails(k)
         => (pc' = "raised" /\ raised' = k /\ Len(attempts') = Len(attempts))]_vars
C3_Witness ==
    /\ pc = "raised" /\ raised = "CLIConnectionError"
    /\ claude_session_id = "t1" /\ Len(attempts) = 1

\* The event the claims call SessionUpdated.
SessionUpdated(v) == [code_int_session_id |-> v]
\* The session field a tool-result item carries ("" when it carries none).
SessionField(b) ==
    IF b = ToolResultBlock(ContentList(<<TextItem(JsonSess42)>>)) THEN "sess-42"
    ELSE IF b = ToolResultBlock(ContentList(<<TextItem(JsonSess43)>>)) THEN "sess-43"
    ELSE ""

\* C4: processing a tool-result item whose payload has a non-empty
\* code_int_session_id sets the tracked sandbox session id to that value and
\* yields a SessionUpdated event carrying it; a payload of {} yields nothing.
C4_SessionUpdatedEmitted ==
    [][\A b \in UserBlocks : ProcessUserBlock(b) =>
          IF SessionField(b) # ""
          THEN /\ events' = Append(events, SessionUpdated(SessionField(b)))
               /\ code_int_session_id' = SessionField(b)
          ELSE events' = events]_vars

\* C5: the tracked sandbox session id changes only when a tool-result item
\* with a non-empty session field is processed, then takes exactly that
\* value, and once non-empty is never reset by any other step.
C5_SessionForwarding ==
    [][/\ \A b \in UserBlocks : (ProcessUserBlock(b) /\ SessionField(b) # "")
              => code_int_session_id' = SessionField(b)
       /\ (code_int_session_id' # code_int_session_id)
              => \E b \in UserBlocks : ProcessUserBlock(b) /\ SessionField(b) # ""
       /\ Truthy(code_int_session_id) => Truthy(code_int_session_id')]_vars

\* C6: the events of one run are yielded in the order of the messages and,
\* within a message, of the content items they come from.
C6_EventOrder ==
    /\ Len(origin) = Len(events)
    /\ \A i, j \in 1..Len(origin) :
          (i < j /\ origin[i][1] = origin[j][1]) => Before(origin[i], origin[j])
\* Two events of the two items of one message, then one of a later message.
C6_Witness ==
    /\ Len(events) = 3
    /\ origin[1][2] = origin[2][2] /\ origin[1][3] = 1 /\ origin[2][3] = 2
    /\ origin[2][2] < origin[3][2]

\* C7: across a retry the caller's sequence only grows at its end: what the
\* first attempt yielded stays, and the second attempt's events follow it.
C7_RetryAppends ==
    /\ [](\A i, j \in 1..Len(origin) : i < j => origin[i][1] <= origin[j][1])
    /\ [][\/ events' = events
          \/ /\ Len(events') = Len(events) + 1
             /\ SubSeq(events', 1, Len(events)) = events
             /\ origin'[Len(events')][1] = Len(attempts)]_vars
    /\ [][pc = "try" /\ pc' = "except" => events' = events]_vars
C7_Witness ==
    /\ Len(attempts) = 2 /\ Len(events) = 2
    /\ origin[1][1] = 1 /\ origin[2][1] = 2

\* C8: a ResultMessage yields one RunCompleted event with the run's session
\* id, and no event of that attempt is yielded after it.
C8_NothingAfterRunCompleted ==
    \A i, j \in 1..Len(events) :
        (i < j /\ origin[i][1] = origin[j][1]) => ~IsRunCompleted(events[i])

\* Payloads that carry no usable session id: not JSON, JSON that is no
\* object, an object without the field, an empty field, an item without text.
C9_Ignorable ==
    {ToolResultBlock(ContentList(<<TextItem(t)>>)) :
        t \in {NonJson, JsonList, JsonEmptyObj, JsonEmptyField}}
    \cup {ToolResultBlock(ContentList(<<ImageItem>>))}
\* C9: a tool-result payload that is unparseable, lacks the session field or
\* has it empty yields no event, raises nothing, leaves the session id as it
\* was, and the loop goes on to the next item.
C9_BadPayloadIgnored ==
    [][\A b \in C9_Ignorable : (gpc = "user" /\ ProcessUserBlock(b)) =>
          /\ events' = events
          /\ pc' = pc /\ raised' = None
          /\ pm_code_int_session_id' = pm_code_int_session_id
          /\ code_int_session_id' = code_int_session_id
          /\ idx' = idx + 1
          /\ gpc' = IF idx' < msg.n THEN "user" ELSE "recv"]_vars
\* A non-JSON payload was the first of two items; the second is next.
C9_Witness ==
    /\ gpc = "user" /\ msg.n = 2 /\ idx = 1
    /\ block = ToolResultBlock(ContentList(<<TextItem(NonJson)>>))
    /\ raised = None

\* C10: at most one run is live at any time; the first attempt's client has
\* been disconnected before the retry's client connects.
C10_OneRunAtATime ==
    /\ Cardinality({i \in 1..Len(attempts) : Live(i)}) <= 1
    /\ Len(attempts) = 2 => ~Live(1)
C10_Witness ==
    /\ Len(attempts) = 2
    /\ attempts[1].client = "closed" /\ attempts[2].client = "open"

\* ------------------------------------------------- configuration claims
ToSet(seq) == {seq[i] : i \in 1..Len(seq)}
ServerNames(servers) == {servers[i].name : i \in 1..Len(servers)}
Configured == stack_name # UNBOUND

\* C13: every sub-agent's tool list is a subset of the tools enabled for the
\* run and excludes Task; it has the gateway wildcard only if the run has.
C13_SubagentToolsSubset ==
    Configured =>
        \A i \in 1..Len(subagents) :
            LET tools == ToSet(subagents[i].definition.tools) IN
            /\ tools \subseteq ToSet(allowed_tools)
            /\ TaskTool \notin tools
            /\ GatewayTool \in tools => GatewayTool \in ToSet(allowed_tools)

\* C14: the enabled tools always hold the four sandbox operations and Task,
\* and the gateway wildcard exactly when a gateway URL and an access token
\* were both obtained.
C14_EnabledTools ==
    Configured =>
        /\ ToSet(SandboxTools) \subseteq ToSet(allowed_tools)
        /\ TaskTool \in ToSet(allowed_tools)
        /\ GatewayTool \in ToSet(allowed_tools)
              <=> (Truthy(gateway_url) /\ Truthy(access_token))
        /\ \A i \in 1..Len(attempts) : attempts[i].options.allowed_tools = allowed_tools
\* A URL was resolved but no token came back: no gateway tool.
C14_Witness ==
    /\ Configured /\ gateway_url = "https://gw" /\ access_token = None
    /\ allowed_tools = SandboxTools \o <<TaskTool>>

C19_GatewayConsistency ==
    /\ \A i \in 1..Len(attempts) :
          LET o == attempts[i].options IN
          /\ GatewayTool \in ToSet(o.allowed_tools) <=> "gateway" \in ServerNames(o.mcp_servers)
          /\ ~Truthy(stack_name) =>
                /\ ServerNames(o.mcp_servers) = {"codeint"}
                /\ GatewayTool \notin ToSet(o.allowed_tools)
    /\ "get_gateway_access_token" \in calls => Truthy(gateway_url)
    /\ "get_ssm_parameter" \in calls <=> (Configured /\ Truthy(stack_name))
    /\ (Configured /\ Truthy(gateway_url)) => Truthy(stack_name)
C19_Witness ==
    /\ Len(attempts) >= 1 /\ stack_name = None /\ calls = {}
    /\ attempts[1].options.mcp_servers = <<CodeIntServer>>

\* ------------------------------------------------ abandonment, termination
\* C11: once the caller has closed the entrypoint's sequence, no run is left
\* open: closing it tears down the open run, in the first attempt and in the
\* retry.
C11_AbandonTearsDown ==
    pc = "closed" => \A i \in 1..Len(attempts) : ~Live(i)

\* C12: an exhausted stream ends the caller's sequence normally, with no
\* error, no retry and no further event; an ended sequence has either ended
\* normally or propagated a failure, no run is open then and nothing more
\* happens.
C12_TerminalOutcome ==
    /\ [](/\ pc = "done" =>
                /\ raised = None /\ gpc = "finished"
                /\ \A i \in 1..Len(attempts) : ~Live(i)
          /\ pc = "raised" =>
                /\ raised \in ExceptionKinds /\ gpc = "finished"
                /\ \A i \in 1..Len(attempts) : ~Live(i)
          /\ pc \in {"start", "try", "except"} => raised = None)
    /\ [][StreamEnd =>
            /\ pc' = "done" /\ raised' = None
            /\ Len(attempts') = Len(attempts)
            /\ events' = events]_vars
    /\ [][pc \notin {"done", "raised"}]_vars
\* The stream ended after a text chunk, without a completion marker.
C12_Witness ==
    /\ pc = "done" /\ raised = None /\ Len(attempts) = 1
    /\ events = <<[data |-> "hi"]>>
    /\ \A i \in 1..Len(events) : ~IsRunCompleted(events[i])

\* ------------------------------------------------------- the event mapping
\* C16: an initialization message yields no event, a text item exactly one
\* event with the item's text, a tool-use item exactly one tool event, the
\* ResultMessage exactly one event with the run's session id.
C16_EventsPerItem ==
    /\ [][ReceiveSystemMessage("init") => events' = events]_vars
    /\ [][\A b \in AssistantBlocks : ProcessAssistantBlock(b) =>
            IF b.type = "TextBlock"
            THEN events' = Append(events, [data |-> b.text])
            ELSE IF b.type = "ToolUseBlock"
            THEN /\ Len(events') = Len(events) + 1
                 /\ SubSeq(events', 1, Len(events)) = events
                 /\ DOMAIN events'[Len(events')] = {"current_tool_use"}
            ELSE TRUE]_vars
    /\ [][\A sid \in RunIds : ReceiveResultMessage(sid) =>
            events' = Append(events, [claude_session_id |-> sid])]_vars
\* [Init, Text("hi"), Completion("r1")]: message 1 yields nothing, item 1 of
\* message 2 the chunk, message 4 (the third message) the completion.
C16_Witness ==
    /\ pc = "done"
    /\ events = <<[data |-> "hi"], [claude_session_id |-> "r1"]>>
    /\ origin = <<<<1, 2, 1>>, <<1, 4, 0>>>>

\* The fallback id that one process (seed0) derives from the name; a function
\* of the name only gives it in every process.
FallbackId(name) == <<"tool-", <<"hash", "seed0", name>>>>

\* C17: the tool event carries the item's name and input unchanged and the id
\* "tool-" + the item's id, or without an id a fallback that depends on the
\* name only; emitting it changes no other state.
C17_ToolInvoked ==
    [][\A b \in AssistantBlocks : (b.type = "ToolUseBlock" /\ ProcessAssistantBlock(b)) =>
          LET e == events'[Len(events')].current_tool_use IN
          /\ e.name = b.name /\ e.input = b.input
          /\ e.toolUseId = IF HasId(b) THEN <<"tool-", b.id>> ELSE FallbackId(b.name)
          /\ UNCHANGED <<pc, inputs, config, raised, attempts, agent_responses,
                         pm_code_int_session_id, received>>]_vars

\* C18: a system message other than init, a tool result inside an assistant
\* message, a text or tool-use item inside a user message and a message of an
\* unknown class yield no event, raise nothing, leave the session id alone and
\* do not end the stream.
C18_UnmatchedSkipped ==
    [][(\/ ReceiveSystemMessage("status")
        \/ ReceiveOtherMessage
        \/ \E b \in AssistantBlocks : b.type = "ToolResultBlock" /\ ProcessAssistantBlock(b)
        \/ \E b \in UserBlocks : b.type \in {"TextBlock", "ToolUseBlock"} /\ ProcessUserBlock(b))
       => /\ UNCHANGED <<events, origin, raised, pc, attempts, agent_responses,
                         code_int_session_id, pm_code_int_session_id>>
          /\ gpc' \in {"recv", "assistant", "user"}]_vars
\* A tool result was met inside an assistant message and nothing was yielded.
C18_Witness ==
    /\ pc = "try" /\ Live(Cur)
    /\ msg.type = "AssistantMessage" /\ idx = 1
    /\ block.type = "ToolResultBlock"
    /\ events = <<>>

====
